---------------------------- MODULE Spec2Model ----------------------------
(***************************************************************************)
(* Portfolio vs Benchmark analysis (streamlit_app.py).                     *)
(*                                                                         *)
(* One script run: the benchmark CSV is loaded, every ETF CSV is loaded    *)
(* and merged into three dictionaries by aggregate_portfolio_data, then    *)
(* the three comparison charts and the overlap metric are computed.        *)
(*                                                                         *)
(* Representation.                                                         *)
(*  - A CSV file, as pandas.read_csv(skiprows=2) returns it, is a record   *)
(*    [cols, rows]: the set of column names present and the sequence of    *)
(*    rows, each row a function from column name to cell.  A cell of a     *)
(*    column the file lacks is never read: reading such a column raises    *)
(*    KeyError.                                                            *)
(*  - An empty CSV field is the missing value NaN.  The cells of the       *)
(*    'Ponderazione (%)' column are character sequences, so that           *)
(*    clean_percentage is modelled by what it does to the characters.      *)
(*  - A float is a record [k, v]: k = "fin" with v the value in units of   *)
(*    1/One, or k = "inf" with v the sign, or k = "nan".  Rounding of      *)
(*    binary floating point is not modelled: finite arithmetic is exact.   *)
(*  - A dictionary is a function; its key set is DOMAIN.                   *)
(***************************************************************************)
EXTENDS Integers, Sequences, FiniteSets, TLC

\* ------------------------------------------------------------------ columns
TickerCol == "Ticker dell'emittente"
NomeCol == "Nome"
PondCol == "Ponderazione (%)"
AssetCol == "Asset Class"
SettoreCol == "Settore"
AreaCol == "Area Geografica"

Cols == {TickerCol, NomeCol, PondCol, AssetCol, SettoreCol, AreaCol}

\* The equity designation the row filter compares with.
Azionario == "Azionario"

\* The missing value of a text cell, and of a 'Ponderazione (%)' cell.
NaN == "NaN"
NaNCell == <<NaN>>

\* ------------------------------------------------------------------- floats
Fin(n) == [k |-> "fin", v |-> n]
PosInf == [k |-> "inf", v |-> 1]
NegInf == [k |-> "inf", v |-> -1]
FNaN == [k |-> "nan", v |-> 0]

\* The result of a failed conversion (Python's ValueError).
ValueError == [k |-> "ValueError", v |-> 0]

RECURSIVE Pow10(_)
Pow10(n) == IF n = 0 THEN 1 ELSE 10 * Pow10(n - 1)

\* The number of decimal places a finite value keeps.
FracDigits == 4

\* One unit of the fixed-point value: 1.0 is Fin(One).
One == Pow10(FracDigits)

Sign(n) == IF n > 0 THEN 1 ELSE IF n < 0 THEN -1 ELSE 0

\* a + b on floats (IEEE 754: inf + -inf and anything + nan are nan).
FAdd(a, b) ==
    IF a.k = "nan" \/ b.k = "nan" THEN FNaN
    ELSE IF a.k = "inf" /\ b.k = "inf" THEN (IF a.v = b.v THEN a ELSE FNaN)
    ELSE IF a.k = "inf" THEN a
    ELSE IF b.k = "inf" THEN b
    ELSE Fin(a.v + b.v)

\* x * weight / 100, weight a finite number of percent (inf * 0 is nan).
FScale(x, weight) ==
    IF x.k = "nan" THEN FNaN
    ELSE IF x.k = "inf"
         THEN (IF weight = 0 THEN FNaN ELSE [k |-> "inf", v |-> x.v * Sign(weight)])
    ELSE Fin((x.v * weight) \div 100)

\* x > 0 on floats (every comparison with nan is False).
FGtZero(x) ==
    IF x.k = "nan" THEN FALSE
    ELSE x.v > 0

\* a > b on floats.
FGt(a, b) ==
    IF a.k = "nan" \/ b.k = "nan" THEN FALSE
    ELSE IF a.k = "inf" THEN (a.v = 1 /\ ~(b.k = "inf" /\ b.v = 1))
    ELSE IF b.k = "inf" THEN b.v = -1
    ELSE a.v > b.v

IsFinite(x) == x.k = "fin"

\* ------------------------------------------------------- clean_percentage
Whitespace == {" ", "\t"}
Digits == {"0", "1", "2", "3", "4", "5", "6", "7", "8", "9"}

DigitVal(c) ==
    CASE c = "0" -> 0 [] c = "1" -> 1 [] c = "2" -> 2 [] c = "3" -> 3
      [] c = "4" -> 4 [] c = "5" -> 5 [] c = "6" -> 6 [] c = "7" -> 7
      [] c = "8" -> 8 [] c = "9" -> 9

RECURSIVE LStrip(_)
LStrip(s) ==
    IF s # <<>> /\ Head(s) \in Whitespace THEN LStrip(Tail(s)) ELSE s

RECURSIVE RStrip(_)
RStrip(s) ==
    IF s # <<>> /\ s[Len(s)] \in Whitespace
    THEN RStrip(SubSeq(s, 1, Len(s) - 1))
    ELSE s

\* str.strip()
Strip(s) == RStrip(LStrip(s))

\* str.replace(',', '.')
ReplaceComma(s) == [i \in 1..Len(s) |-> IF s[i] = "," THEN "." ELSE s[i]]

RECURSIVE DigitsValue(_)
DigitsValue(s) ==
    IF s = <<>> THEN 0
    ELSE 10 * DigitsValue(SubSeq(s, 1, Len(s) - 1)) + DigitVal(s[Len(s)])

\* The unsigned decimal  digits [. digits]  |  . digits  as a fixed-point
\* number, or ValueError.  Digits beyond FracDigits places are cut.
ParseDecimal(s) ==
    LET dots == {i \in 1..Len(s) : s[i] = "."}
        allDigits(t) == \A i \in 1..Len(t) : t[i] \in Digits
    IN  IF Cardinality(dots) > 1 THEN ValueError
        ELSE LET p == IF dots = {} THEN Len(s) + 1 ELSE CHOOSE i \in dots : TRUE
                 int == SubSeq(s, 1, p - 1)
                 frac == SubSeq(s, p + 1, Len(s))
                 kept == SubSeq(frac, 1, IF Len(frac) < FracDigits THEN Len(frac) ELSE FracDigits)
             IN  IF ~allDigits(int) \/ ~allDigits(frac) \/ (int = <<>> /\ frac = <<>>)
                 THEN ValueError
                 ELSE Fin(DigitsValue(int) * One
                          + DigitsValue(kept) * Pow10(FracDigits - Len(kept)))

\* float(s) of Python for the strings over the model's alphabet (digits, sign,
\* dot, blanks and lower-case letters; no exponent, no underscore):
\* a float, or ValueError.
PyFloat(s) ==
    LET t == Strip(s)
        neg == t # <<>> /\ Head(t) = "-"
        signed == t # <<>> /\ Head(t) \in {"-", "+"}
        body == IF signed THEN Tail(t) ELSE t
    IN  IF body = <<"i", "n", "f">> \/ body = <<"i", "n", "f", "i", "n", "i", "t", "y">>
        THEN (IF neg THEN NegInf ELSE PosInf)
        ELSE IF body = <<"n", "a", "n">> THEN FNaN
        ELSE LET d == ParseDecimal(body)
             IN  IF d = ValueError THEN ValueError
                 ELSE IF neg THEN Fin(-d.v) ELSE d

\* pd.isna(value)
IsNa(value) == value = NaNCell

clean_percentage(value) ==
    IF IsNa(value) \/ value = <<>> THEN Fin(0)
    ELSE LET clean_val == ReplaceComma(Strip(value))
             f == PyFloat(clean_val)
         IN  IF f = ValueError THEN Fin(0) ELSE f

\* ---------------------------------------------------- load_and_clean_data
\* The row of a CSV file.
Row(ticker, nome, pond, asset, settore, area) ==
    (TickerCol :> ticker) @@ (NomeCol :> nome) @@ (PondCol :> pond)
    @@ (AssetCol :> asset) @@ (SettoreCol :> settore) @@ (AreaCol :> area)

File(cols, rows) == [cols |-> cols, rows |-> rows]

\* What load_and_clean_data returns when it caught an exception.
None == [ok |-> FALSE, cols |-> {}, rows |-> <<>>, tickerFloat |-> FALSE]

RECURSIVE SetToSeq(_)
\* The members of a set of integers in ascending order.
SetToSeq(S) ==
    IF S = {} THEN <<>>
    ELSE LET m == CHOOSE x \in S : \A y \in S : x <= y
         IN  <<m>> \o SetToSeq(S \ {m})

\* read_csv gives a column whose every cell is empty the dtype float64, and
\* a column with at least one text cell the dtype object.  In an object
\* column each missing cell holds the one object np.nan; the cells of a
\* float64 column are boxed into a new float object each time they are read.
TickerIsFloat(file) ==
    /\ file.rows # <<>>
    /\ \A r \in 1..Len(file.rows) : file.rows[r][TickerCol] = NaN

\* The frame after line 36: the retained rows in source order, each with its
\* index label and its 'Ponderazione_Clean' value.
RetainedRows(file) ==
    LET clean(r) == clean_percentage(file.rows[r][PondCol])
        keep == {r \in 1..Len(file.rows) :
                    /\ file.rows[r][AssetCol] = Azionario
                    /\ FGtZero(clean(r))}
        order == SetToSeq(keep)
    IN  [p \in 1..Len(order) |->
            [idx |-> order[p], row |-> file.rows[order[p]], clean |-> clean(order[p])]]

\* A KeyError inside the try block (a missing 'Ponderazione (%)' or
\* 'Asset Class' column) is caught and None is returned.
load_and_clean_data(uploaded_file) ==
    IF PondCol \notin uploaded_file.cols \/ AssetCol \notin uploaded_file.cols
    THEN None
    ELSE [ok |-> TRUE,
          cols |-> uploaded_file.cols,
          rows |-> RetainedRows(uploaded_file),
          tickerFloat |-> TickerCol \in uploaded_file.cols /\ TickerIsFloat(uploaded_file)]

\* ------------------------------------------------ aggregate_portfolio_data
\* The dictionary key a ticker cell makes.  A dictionary finds a key by
\* identity, then by ==.  Text compares by ==; nan == nan is False, so a
\* missing ticker is found again only when it is the same object: np.nan
\* itself (object column) or the float boxed for row idx of file fid.
TickerKey(fid, df, e) ==
    IF e.row[TickerCol] = NaN /\ df.tickerFloat
    THEN <<NaN, fid, e.idx>>
    ELSE <<e.row[TickerCol], 0, 0>>

\* AddHolding storing the contribution instead of adding it.
AddHolding_Overwrite(holdings, fid, df, e, weight) ==
    LET ticker == TickerKey(fid, df, e)
        contribution == FScale(e.clean, weight)
    IN  (ticker :> [name |-> IF ticker \in DOMAIN holdings
                             THEN holdings[ticker].name ELSE e.row[NomeCol],
                    weight |-> contribution,
                    sector |-> IF ticker \in DOMAIN holdings
                               THEN holdings[ticker].sector ELSE e.row[SettoreCol],
                    region |-> IF ticker \in DOMAIN holdings
                               THEN holdings[ticker].region ELSE e.row[AreaCol]])
        @@ holdings

\* AddHolding taking the name, sector and region of the latest row.
AddHolding_LastWins(holdings, fid, df, e, weight) ==
    LET ticker == TickerKey(fid, df, e)
        contribution == FScale(e.clean, weight)
    IN  (ticker :> [name |-> e.row[NomeCol],
                    weight |-> IF ticker \in DOMAIN holdings
                               THEN FAdd(holdings[ticker].weight, contribution)
                               ELSE contribution,
                    sector |-> e.row[SettoreCol],
                    region |-> e.row[AreaCol]]) @@ holdings

\* Lines 56-66 for one row of the frame df of file fid.
AddHolding(holdings, fid, df, e, weight) ==
    LET ticker == TickerKey(fid, df, e)
        contribution == FScale(e.clean, weight)
    IN  IF ticker \in DOMAIN holdings
        THEN [holdings EXCEPT ![ticker].weight = FAdd(@, contribution)]
        ELSE (ticker :> [name |-> e.row[NomeCol],
                         weight |-> contribution,
                         sector |-> e.row[SettoreCol],
                         region |-> e.row[AreaCol]]) @@ holdings

\* The row raises KeyError: a column it reads is missing.
RowRaises(holdings, fid, df, e) ==
    \/ TickerCol \notin df.cols
    \/ NomeCol \notin df.cols
    \/ /\ TickerKey(fid, df, e) \notin DOMAIN holdings
       /\ (SettoreCol \notin df.cols \/ AreaCol \notin df.cols)

RECURSIVE FSum(_)
FSum(s) == IF s = <<>> THEN Fin(0) ELSE FAdd(FSum(SubSeq(s, 1, Len(s) - 1)), s[Len(s)])

\* df.groupby(col)['Ponderazione_Clean'].sum(): groupby leaves out the rows
\* whose key is missing (dropna=True).
GroupSum(rows, col) ==
    LET keys == {rows[p].row[col] : p \in 1..Len(rows)} \ {NaN}
    IN  [key \in keys |->
            LET at == SetToSeq({p \in 1..Len(rows) : rows[p].row[col] = key})
            IN  FSum([q \in 1..Len(at) |-> rows[at[q]].clean])]

\* d.get(key, 0)
Get(d, key) == IF key \in DOMAIN d THEN d[key] ELSE Fin(0)

\* AddGroups assigning a group's contribution instead of adding it.
AddGroups_Assign(d, sums, weight) ==
    [key \in DOMAIN d \cup DOMAIN sums |->
        IF key \in DOMAIN sums THEN FScale(sums[key], weight) ELSE d[key]]

\* Lines 70-72 and 76-78: every group's sum, scaled, added to the dictionary.
AddGroups(d, sums, weight) ==
    [key \in DOMAIN d \cup DOMAIN sums |->
        IF key \in DOMAIN sums
        THEN FAdd(Get(d, key), FScale(sums[key], weight))
        ELSE d[key]]

\* ---------------------------------------------------------------- charts
\* The n of benchmark_df.nlargest(10, 'Ponderazione_Clean').
TopN == 10

RECURSIVE PickLargest(_, _, _)
\* nlargest(n, column) with keep='first': the rows in descending order of the
\* column, the earlier row first among equal values, cut after n rows.
PickLargest(rows, left, n) ==
    IF n = 0 \/ left = {} THEN <<>>
    ELSE LET m == CHOOSE p \in left :
                    /\ \A q \in left : ~FGt(rows[q].clean, rows[p].clean)
                    /\ \A q \in left :
                          (q < p) => FGt(rows[p].clean, rows[q].clean)
         IN  <<rows[m]>> \o PickLargest(rows, left \ {m}, n - 1)

\* head(n) in place of nlargest: the first n rows as they stand.
nlargest_Head(n, rows) == SubSeq(rows, 1, IF Len(rows) < n THEN Len(rows) ELSE n)

nlargest(n, rows) == PickLargest(rows, 1..Len(rows), n)

EmptyDict == [key \in {} |-> Fin(0)]
NoHoldings == [key \in {} |-> [name |-> NaN, weight |-> Fin(0), sector |-> NaN, region |-> NaN]]

\* Lines 91-99 and the two bar series of lines 103-104.
TopHoldings(bdf, holdings) ==
    LET top == nlargest(TopN, bdf.rows)
    IN  [p \in 1..Len(top) |->
            LET ticker == TickerKey(0, bdf, top[p])
            IN  [name |-> top[p].row[NomeCol],
                 benchmark |-> top[p].clean,
                 portfolio |-> IF ticker \in DOMAIN holdings
                               THEN holdings[ticker].weight
                               ELSE Fin(0)]]

\* Comparison over the benchmark's keys only.
Comparison_BenchmarkKeys(bdf, col, portfolio) ==
    LET benchmark == GroupSum(bdf.rows, col)
    IN  [key \in DOMAIN benchmark |->
            [benchmark |-> Get(benchmark, key), portfolio |-> Get(portfolio, key)]]

\* Lines 121-128 (and 149-156): the bars of every key of the union.
Comparison(bdf, col, portfolio) ==
    LET benchmark == GroupSum(bdf.rows, col)
        all == DOMAIN benchmark \cup DOMAIN portfolio
    IN  [key \in all |->
            [benchmark |-> Get(benchmark, key), portfolio |-> Get(portfolio, key)]]

\* set(benchmark_df["Ticker dell'emittente"])
BenchmarkTickers(bdf) == {TickerKey(0, bdf, bdf.rows[p]) : p \in 1..Len(bdf.rows)}

\* OverlapPct dividing by the number of benchmark identifiers.
OverlapPct_OverBenchmark(bdf, holdings) ==
    LET overlap == Cardinality(DOMAIN holdings \cap BenchmarkTickers(bdf))
    IN  IF DOMAIN holdings # {}
        THEN [num |-> overlap * 100, den |-> Cardinality(BenchmarkTickers(bdf))]
        ELSE [num |-> 0, den |-> 1]

\* Lines 276-277; the quotient is kept as the fraction num / den.
OverlapPct(bdf, holdings) ==
    LET overlap == Cardinality(DOMAIN holdings \cap BenchmarkTickers(bdf))
    IN  IF DOMAIN holdings # {}
        THEN [num |-> overlap * 100, den |-> Cardinality(DOMAIN holdings)]
        ELSE [num |-> 0, den |-> 1]

\* ---------------------------------------------------------- the script run
VARIABLES
    benchmark_file,      \* the uploaded benchmark CSV
    etf_files,           \* the uploaded ETF CSVs
    weights,             \* the percentage entered for each ETF
    pc,                  \* where the run is
    benchmark_df,        \* load_and_clean_data(benchmark_file)
    i,                   \* the loop index of line 49, from 1
    df,                  \* the frame of ETF i
    j,                   \* the position of the row loop of line 53 in df
    portfolio_holdings,
    portfolio_sectors,
    portfolio_regions,
    errors,              \* the files st.error reported: 0 the benchmark, i ETF i
    exception,           \* the uncaught exception that ended the run, or "none"
    top_chart,
    sector_chart,
    region_chart,
    overlap_pct

inputs == <<benchmark_file, etf_files, weights>>
dicts == <<portfolio_holdings, portfolio_sectors, portfolio_regions>>
charts == <<top_chart, sector_chart, region_chart, overlap_pct>>
vars == <<benchmark_file, etf_files, weights, pc, benchmark_df, i, df, j,
          portfolio_holdings, portfolio_sectors, portfolio_regions, errors,
          exception, top_chart, sector_chart, region_chart, overlap_pct>>

NoChart == [key \in {} |-> [benchmark |-> Fin(0), portfolio |-> Fin(0)]]
NoOverlap == [num |-> 0, den |-> 0]

\* A run starts once the benchmark and every ETF file are uploaded
\* (lines 186 and 236).
InitWith(benchmarks, fundLists, weightSet) ==
    /\ benchmark_file \in benchmarks
    /\ etf_files \in fundLists
    /\ weights \in [1..Len(etf_files) -> weightSet]
    /\ pc = "load_benchmark"
    /\ benchmark_df = None
    /\ i = 1
    /\ df = None
    /\ j = 1
    /\ portfolio_holdings = NoHoldings
    /\ portfolio_sectors = EmptyDict
    /\ portfolio_regions = EmptyDict
    /\ errors = {}
    /\ exception = "none"
    /\ top_chart = <<>>
    /\ sector_chart = NoChart
    /\ region_chart = NoChart
    /\ overlap_pct = NoOverlap

\* EtfWeight counting only the files that loaded.
EtfWeight_Loaded(k) == weights[k - Cardinality({f \in errors : 0 < f /\ f < k})]

\* zip(etf_files, weights) of line 49: the percentage of ETF k.
EtfWeight(k) == weights[k]

\* An uncaught exception ends the script run.
Raise(e) ==
    /\ pc' = "crashed"
    /\ exception' = e

\* Line 187: the benchmark is loaded; without it nothing else is shown.
LoadBenchmark ==
    /\ pc = "load_benchmark"
    /\ benchmark_df' = load_and_clean_data(benchmark_file)
    /\ IF benchmark_df'.ok
       THEN pc' = "load_etf" /\ errors' = errors
       ELSE pc' = "done" /\ errors' = errors \cup {0}
    /\ UNCHANGED <<inputs, i, df, j, dicts, exception, charts>>

\* Where the loop of line 49 goes after ETF k.
AfterEtf(k) == IF k < Len(etf_files) THEN "load_etf" ELSE "aggregated"

\* Lines 50-51: ETF i is loaded; a failed load is reported and skipped.
LoadEtf ==
    /\ pc = "load_etf"
    /\ df' = load_and_clean_data(etf_files[i])
    /\ IF df'.ok
       THEN /\ pc' = IF df'.rows = <<>> THEN "sectors" ELSE "rows"
            /\ UNCHANGED <<i, errors>>
       ELSE /\ pc' = AfterEtf(i)
            /\ i' = i + 1
            /\ errors' = errors \cup {i}
    /\ j' = 1
    /\ UNCHANGED <<inputs, benchmark_df, dicts, exception, charts>>

\* Lines 53-66: one row of ETF i.
AggregateRow ==
    /\ pc = "rows"
    /\ IF RowRaises(portfolio_holdings, i, df, df.rows[j])
       THEN /\ Raise("KeyError")
            /\ UNCHANGED <<portfolio_holdings, j>>
       ELSE /\ portfolio_holdings' =
                  AddHolding(portfolio_holdings, i, df, df.rows[j], EtfWeight(i))
            /\ j' = j + 1
            /\ pc' = IF j < Len(df.rows) THEN "rows" ELSE "sectors"
            /\ UNCHANGED exception
    /\ UNCHANGED <<inputs, benchmark_df, i, df, portfolio_sectors,
                   portfolio_regions, errors, charts>>

\* Lines 69-72.
AggregateSectors ==
    /\ pc = "sectors"
    /\ IF SettoreCol \notin df.cols
       THEN /\ Raise("KeyError")
            /\ UNCHANGED portfolio_sectors
       ELSE /\ portfolio_sectors' =
                  AddGroups(portfolio_sectors, GroupSum(df.rows, SettoreCol), EtfWeight(i))
            /\ pc' = "regions"
            /\ UNCHANGED exception
    /\ UNCHANGED <<inputs, benchmark_df, i, df, j, portfolio_holdings,
                   portfolio_regions, errors, charts>>

\* Lines 75-78, then the next ETF.
AggregateRegions ==
    /\ pc = "regions"
    /\ IF AreaCol \notin df.cols
       THEN /\ Raise("KeyError")
            /\ UNCHANGED <<portfolio_regions, i>>
       ELSE /\ portfolio_regions' =
                  AddGroups(portfolio_regions, GroupSum(df.rows, AreaCol), EtfWeight(i))
            /\ pc' = AfterEtf(i)
            /\ i' = i + 1
            /\ UNCHANGED exception
    /\ UNCHANGED <<inputs, benchmark_df, df, j, portfolio_holdings,
                   portfolio_sectors, errors, charts>>

\* Lines 80 and 242: the dictionaries are returned; the charts are drawn only
\* for a portfolio with holdings.
ReturnAggregate ==
    /\ pc = "aggregated"
    /\ pc' = IF DOMAIN portfolio_holdings # {} THEN "top_chart" ELSE "done"
    /\ UNCHANGED <<inputs, benchmark_df, i, df, j, dicts, errors, exception, charts>>

\* create_top_holdings_chart (line 245).
TopHoldingsChart ==
    /\ pc = "top_chart"
    /\ IF (benchmark_df.rows # <<>>
           /\ (TickerCol \notin benchmark_df.cols \/ NomeCol \notin benchmark_df.cols))
       THEN /\ Raise("KeyError")
            /\ UNCHANGED top_chart
       ELSE /\ top_chart' = TopHoldings(benchmark_df, portfolio_holdings)
            /\ pc' = "sector_chart"
            /\ UNCHANGED exception
    /\ UNCHANGED <<inputs, benchmark_df, i, df, j, dicts, errors,
                   sector_chart, region_chart, overlap_pct>>

\* create_sector_comparison_chart (line 250).
SectorChart ==
    /\ pc = "sector_chart"
    /\ IF SettoreCol \notin benchmark_df.cols
       THEN /\ Raise("KeyError")
            /\ UNCHANGED sector_chart
       ELSE /\ sector_chart' = Comparison(benchmark_df, SettoreCol, portfolio_sectors)
            /\ pc' = "region_chart"
            /\ UNCHANGED exception
    /\ UNCHANGED <<inputs, benchmark_df, i, df, j, dicts, errors,
                   top_chart, region_chart, overlap_pct>>

\* create_region_comparison_chart (line 255).
RegionChart ==
    /\ pc = "region_chart"
    /\ IF AreaCol \notin benchmark_df.cols
       THEN /\ Raise("KeyError")
            /\ UNCHANGED region_chart
       ELSE /\ region_chart' = Comparison(benchmark_df, AreaCol, portfolio_regions)
            /\ pc' = "overlap"
            /\ UNCHANGED exception
    /\ UNCHANGED <<inputs, benchmark_df, i, df, j, dicts, errors,
                   top_chart, sector_chart, overlap_pct>>

\* Lines 276-277.
OverlapMetric ==
    /\ pc = "overlap"
    /\ IF TickerCol \notin benchmark_df.cols
       THEN /\ Raise("KeyError")
            /\ UNCHANGED overlap_pct
       ELSE /\ overlap_pct' = OverlapPct(benchmark_df, portfolio_holdings)
            /\ pc' = "done"
            /\ UNCHANGED exception
    /\ UNCHANGED <<inputs, benchmark_df, i, df, j, dicts, errors,
                   top_chart, sector_chart, region_chart>>

Next ==
    \/ LoadBenchmark
    \/ LoadEtf
    \/ AggregateRow
    \/ AggregateSectors
    \/ AggregateRegions
    \/ ReturnAggregate
    \/ TopHoldingsChart
    \/ SectorChart
    \/ RegionChart
    \/ OverlapMetric

\* ------------------------------- aggregate_portfolio_data as a function
\* A fund is [id, file, weight]: id tells the float objects of one file's
\* rows from those of another.
Fund(id, file, weight) == [id |-> id, file |-> file, weight |-> weight]

RECURSIVE AddHoldings(_, _, _, _, _)
\* The row loop of lines 53-66 over the rows of frame from position p.
AddHoldings(holdings, fid, frame, p, weight) ==
    IF p > Len(frame.rows) THEN holdings
    ELSE AddHoldings(AddHolding(holdings, fid, frame, frame.rows[p], weight),
                     fid, frame, p + 1, weight)

\* Lines 53-78 raise KeyError on this frame.
FrameRaises(d) ==
    \/ d.rows # <<>> /\ (TickerCol \notin d.cols \/ NomeCol \notin d.cols)
    \/ SettoreCol \notin d.cols
    \/ AreaCol \notin d.cols

RECURSIVE AggregateFrom(_, _, _)
\* The loop of line 49 from fund n on; raised tells an uncaught KeyError.
AggregateFrom(acc, funds, n) ==
    IF n > Len(funds) \/ acc.raised THEN acc
    ELSE LET f == funds[n]
             d == load_and_clean_data(f.file)
         IN  IF ~d.ok THEN AggregateFrom(acc, funds, n + 1)
             ELSE IF FrameRaises(d) THEN [acc EXCEPT !.raised = TRUE]
             ELSE AggregateFrom(
                      [raised |-> FALSE,
                       holdings |-> AddHoldings(acc.holdings, f.id, d, 1, f.weight),
                       sectors |-> AddGroups(acc.sectors, GroupSum(d.rows, SettoreCol), f.weight),
                       regions |-> AddGroups(acc.regions, GroupSum(d.rows, AreaCol), f.weight)],
                      funds, n + 1)

aggregate_portfolio_data(funds) ==
    AggregateFrom([raised |-> FALSE, holdings |-> NoHoldings,
                   sectors |-> EmptyDict, regions |-> EmptyDict], funds, 1)

\* --------------------------------------------------------------- the inputs
\* The most ETFs of a run, and the most rows their files hold together.
MaxEtfs == 2
MaxRows == 3

\* The sequences over S of length at most n.
SeqsUpTo(S, n) == UNION {[1..k -> S] : k \in 0..n}

RECURSIVE FundListsOf(_, _, _)
\* The lists of n files from files that hold at most t rows together.
FundListsOf(files, n, t) ==
    IF n = 0 THEN {<<>>}
    ELSE UNION {{<<f>> \o rest : rest \in FundListsOf(files, n - 1, t - Len(f.rows))} :
                    f \in {g \in files : Len(g.rows) <= t}}

Str10 == <<"1", "0">>
Str2c5 == <<"2", ",", "5">>
Str7 == <<" ", "7">>

RowAlpha == Row("AAA", "Alpha", Str10, Azionario, "Tech", "US")
\* The same ticker with another name, sector and no region.
RowAlphaInc == Row("AAA", "Alpha Inc", Str2c5, Azionario, "Fin", NaN)
\* No ticker and no sector.
RowGamma == Row(NaN, "Gamma", Str7, Azionario, NaN, "EU")
RowBond == Row("BBB", "Bond", Str10, "Obbligazionario", "Fin", "US")
RowBeta == Row("BBB", "Beta", Str2c5, Azionario, "Energy", "EU")

RowPool == {RowAlpha, RowAlphaInc, RowGamma}

\* A file with a row that is not an equity.
MixedFiles == {File(Cols, <<RowBond, RowAlpha>>)}

\* A file without its asset-class column, and one without its sector column.
BadFiles == {File(Cols \ {AssetCol}, <<RowAlpha>>), File(Cols \ {SettoreCol}, <<RowAlpha>>)}

FundFiles ==
    {File(Cols, rows) : rows \in SeqsUpTo(RowPool, MaxRows)}
    \cup MixedFiles \cup BadFiles

FundLists == UNION {FundListsOf(FundFiles, n, MaxRows) : n \in 1..MaxEtfs}

Benchmarks ==
    {File(Cols, <<RowAlpha, RowBeta, RowGamma>>),
     File(Cols \ {PondCol}, <<RowAlpha>>)}

WeightSet == {50, 100}

Init == InitWith(Benchmarks, FundLists, WeightSet)

Spec == Init /\ [][Next]_vars

\* Runs that load one ETF file whose weight cells are of every kind.
MaxLoadRows == 2

RawValues ==
    {NaNCell, <<>>, Str10, Str2c5, Str7,
     <<"0">>, <<"0", ",", "0">>, <<"-", "3">>, <<"a", "b", "c">>,
     <<"1", ",", "2", ",", "3">>, <<"i", "n", "f">>, <<" ", "n", "a", "n">>}

LoadRowPool ==
    {Row("AAA", "Alpha", raw, asset, "Tech", "US") :
        raw \in RawValues, asset \in {Azionario, "Obbligazionario"}}

LoadFundLists == {<<File(Cols, rows)>> : rows \in SeqsUpTo(LoadRowPool, MaxLoadRows)}

InitLoad == InitWith({File(Cols, <<RowAlpha, RowBeta>>)}, LoadFundLists, {100})

SpecLoad == InitLoad /\ [][Next]_vars

\* Runs whose benchmark has more holdings than the top chart shows: every
\* holding has its own ticker and one of two weights.
MaxBenchRows == 11

TopRow(p, pond) ==
    Row("T" \o ToString(p), "Holding " \o ToString(p), pond, Azionario, "Tech", "US")

TopBenchmarks ==
    {File(Cols, [p \in 1..Len(ponds) |-> TopRow(p, ponds[p])]) :
        ponds \in SeqsUpTo({Str10, Str2c5}, MaxBenchRows)}

TopFundLists ==
    {<<File(Cols, <<TopRow(2, Str10), TopRow(11, Str2c5)>>)>>,
     <<File(Cols, <<TopRow(1, Str7)>>)>>}

InitTop == InitWith(TopBenchmarks, TopFundLists, {50})

SpecTop == InitTop /\ [][Next]_vars

\* ---------------------------------------------------------------- helpers
\* aggregate_portfolio_data has returned.
Returned ==
    pc \in {"aggregated", "top_chart", "sector_chart", "region_chart", "overlap"}
    \/ (pc = "done" /\ benchmark_df.ok)
    \/ (pc = "crashed" /\ i > Len(etf_files))

\* The ETFs of the run and the frame of each.  L below is always Frames; a
\* formula binds it with \A L \in {Frames} so that it is computed once.
Etfs == 1..Len(etf_files)
Frames == [k \in Etfs |-> load_and_clean_data(etf_files[k])]
FundOf(k) == Fund(k, etf_files[k], weights[k])

\* The retained rows of the loaded funds, as <<fund, position>>.
RetainedAt(L) == UNION {{<<k, p>> : p \in 1..Len(L[k].rows)} : k \in Etfs}

KeyAt(L, x) == TickerKey(x[1], L[x[1]], L[x[1]].rows[x[2]])
ContributionAt(L, x) == (L[x[1]].rows[x[2]].clean.v * weights[x[1]]) \div 100

RECURSIVE SumContributions(_, _)
\* The sum of row weight * allocation / 100 over a set of retained rows.
SumContributions(L, S) ==
    IF S = {} THEN 0
    ELSE LET x == CHOOSE y \in S : TRUE
         IN  ContributionAt(L, x) + SumContributions(L, S \ {x})

RECURSIVE SumValues(_, _)
\* The sum of the values (of the weights, for the holdings map) of d over the
\* keys of K.
SumValues(d, K) ==
    IF K = {} THEN 0
    ELSE LET key == CHOOSE y \in K : TRUE
         IN  (IF "weight" \in DOMAIN d[key] THEN d[key].weight.v ELSE d[key].v)
             + SumValues(d, K \ {key})

\* ------------------------------------------------------------------ claims
\* C1: once aggregate_portfolio_data has returned, the weight stored under
\* every identifier X of the holdings map is the sum, over every retained row
\* of every loaded fund whose ticker is X, of row weight * allocation / 100,
\* and the identifiers of the map are exactly those of the retained rows.
C1_HoldingWeightIsWeightedSum ==
    Returned =>
        \A L \in {Frames} : \A R \in {RetainedAt(L)} :
            /\ DOMAIN portfolio_holdings = {KeyAt(L, x) : x \in R}
            /\ \A X \in DOMAIN portfolio_holdings :
                  portfolio_holdings[X].weight =
                      Fin(SumContributions(L, {x \in R : KeyAt(L, x) = X}))

\* An identifier carried twice by the first file and once more by the second,
\* both loaded with different allocations, and the sum is in the map.
C1_Witness ==
    /\ Returned
    /\ Len(etf_files) = 2
    /\ weights[1] # weights[2]
    /\ LET L == Frames
           R == RetainedAt(L)
       IN  \E X \in DOMAIN portfolio_holdings :
              /\ Cardinality({x \in R : KeyAt(L, x) = X /\ x[1] = 1}) = 2
              /\ Cardinality({x \in R : KeyAt(L, x) = X /\ x[1] = 2}) = 1
              /\ portfolio_holdings[X].weight.v > 0

\* C2: once aggregate_portfolio_data has returned, the values of the holdings
\* map, of sectorWeights and of regionWeights each add up to the sum over the
\* loaded funds of retained weight * allocation / 100, blank identifiers,
\* sectors and regions included.
C2_MassConserved ==
    Returned =>
        \A L \in {Frames} : \A mass \in {SumContributions(L, RetainedAt(L))} :
            /\ SumValues(portfolio_holdings, DOMAIN portfolio_holdings) = mass
            /\ SumValues(portfolio_sectors, DOMAIN portfolio_sectors) = mass
            /\ SumValues(portfolio_regions, DOMAIN portfolio_regions) = mass

\* The run with its two funds supplied in the other order.
Swapped == aggregate_portfolio_data(<<FundOf(2), FundOf(1)>>)

\* The funds that carry identifier X in a retained row.
Carriers(L, X) == {x[1] : x \in {y \in RetainedAt(L) : KeyAt(L, y) = X}}

\* C3 (as stated): aggregating [A, B] and [B, A] gives the same holdings map
\* (identifiers, weights, names, sectors, regions), the same sectorWeights
\* and the same regionWeights.
C3_OrderIndependent ==
    (Returned /\ Len(etf_files) = 2) =>
        \A other \in {Swapped} :
            /\ ~other.raised
            /\ other.holdings = portfolio_holdings
            /\ other.sectors = portfolio_sectors
            /\ other.regions = portfolio_regions

\* C3 (amended): aggregating [A, B] and [B, A] gives the same identifiers,
\* each with the same weight, the same sectorWeights and the same
\* regionWeights; the name, sector and region are the same for every
\* identifier that only one of the two funds carries.
C3_WeightsOrderIndependent ==
    (Returned /\ Len(etf_files) = 2) =>
        \A other \in {Swapped} : \A L \in {Frames} :
            /\ ~other.raised
            /\ DOMAIN other.holdings = DOMAIN portfolio_holdings
            /\ \A X \in DOMAIN portfolio_holdings :
                  /\ other.holdings[X].weight = portfolio_holdings[X].weight
                  /\ Cardinality(Carriers(L, X)) = 1 =>
                        other.holdings[X] = portfolio_holdings[X]
            /\ other.sectors = portfolio_sectors
            /\ other.regions = portfolio_regions

\* Two loaded funds with different allocations share an identifier, and a
\* third identifier is carried by one of them only.
C3_Witness ==
    /\ Returned
    /\ Len(etf_files) = 2
    /\ weights[1] # weights[2]
    /\ LET L == Frames
       IN  /\ \E X \in DOMAIN portfolio_holdings : Carriers(L, X) = {1, 2}
           /\ \E X \in DOMAIN portfolio_holdings : Cardinality(Carriers(L, X)) = 1
    /\ DOMAIN portfolio_sectors # {}

\* The aggregation of ETF k has begun.
Began(k) == i > k \/ (i = k /\ pc \in {"rows", "sectors", "regions", "crashed"})

\* C4: a fund file that lacks one of the six required columns is reported by
\* load_and_clean_data, which returns None for it, and the run is not aborted.
C4_MissingColumnIsCaught ==
    \A k \in Etfs :
        (Began(k) /\ etf_files[k].cols # Cols) =>
            /\ ~load_and_clean_data(etf_files[k]).ok
            /\ k \in errors
            /\ pc # "crashed"

RECURSIVE LoadedFunds(_, _)
\* The funds from k on whose load succeeded, in the order supplied.
LoadedFunds(L, k) ==
    IF k > Len(etf_files) THEN <<>>
    ELSE (IF L[k].ok THEN <<FundOf(k)>> ELSE <<>>) \o LoadedFunds(L, k + 1)

\* C5: a fund whose load failed is skipped: the three maps are those of
\* aggregating the remaining funds with their own allocations, and the
\* holdings map is not empty when a loaded fund has a retained row.
C5_FailedFundSkipped ==
    Returned =>
        \A L \in {Frames} :
            (\E k \in Etfs : ~L[k].ok) =>
                \A rest \in {aggregate_portfolio_data(LoadedFunds(L, 1))} :
                    /\ rest.holdings = portfolio_holdings
                    /\ rest.sectors = portfolio_sectors
                    /\ rest.regions = portfolio_regions
                    /\ (\E k \in Etfs : L[k].rows # <<>>) =>
                           DOMAIN portfolio_holdings # {}

\* The first fund failed to load, was reported, and the second one, with
\* another allocation, filled the maps.
C5_Witness ==
    /\ Returned
    /\ Len(etf_files) = 2
    /\ 1 \in errors
    /\ weights[1] # weights[2]
    /\ DOMAIN portfolio_holdings # {}
    /\ LET L == Frames
       IN  ~L[1].ok /\ L[2].rows # <<>>

\* The retained rows the row loop has been through.
Processed(L) ==
    {x \in RetainedAt(L) :
        \/ x[1] < i
        \/ /\ x[1] = i
           /\ pc \in {"rows", "sectors", "regions", "crashed"}
           /\ x[2] < j}

RowAt(L, x) == L[x[1]].rows[x[2]].row

\* The first row, in fund order then row order, of a set of retained rows.
FirstOf(S) ==
    CHOOSE x \in S : \A y \in S : x[1] < y[1] \/ (x[1] = y[1] /\ x[2] <= y[2])

\* The name, sector and region of every identifier are those of the first
\* retained row that carried it.
FirstWins ==
    \A L \in {Frames} : \A P \in {Processed(L)} :
        /\ DOMAIN portfolio_holdings = {KeyAt(L, x) : x \in P}
        /\ \A X \in DOMAIN portfolio_holdings :
              LET first == RowAt(L, FirstOf({x \in P : KeyAt(L, x) = X}))
              IN  /\ portfolio_holdings[X].name = first[NomeCol]
                  /\ portfolio_holdings[X].sector = first[SettoreCol]
                  /\ portfolio_holdings[X].region = first[AreaCol]

\* A row whose identifier is already in the map raises nothing and changes
\* the stored weight only.
KnownTickerStep ==
    (/\ pc = "rows"
     /\ TickerCol \in df.cols
     /\ NomeCol \in df.cols
     /\ TickerKey(i, df, df.rows[j]) \in DOMAIN portfolio_holdings)
    => LET X == TickerKey(i, df, df.rows[j])
       IN  /\ pc' # "crashed"
           /\ portfolio_holdings' =
                 [portfolio_holdings EXCEPT
                     ![X].weight = FAdd(@, FScale(df.rows[j].clean, weights[i]))]

\* C7: a row whose identifier is already in the holdings map only adds its
\* contribution to the stored weight, without an error; at every moment the
\* name, sector and region of each identifier are those of the first retained
\* row that carried it.
C7_FirstOccurrenceWins == []FirstWins /\ [][KnownTickerStep]_vars

\* A later row of an identifier disagreed with the stored name, sector and
\* region, and they are still those of the first row.
C7_Witness ==
    /\ pc # "crashed"
    /\ LET L == Frames
           P == Processed(L)
       IN  \E x \in P :
              LET X == KeyAt(L, x)
              IN  /\ RowAt(L, x)[NomeCol] # portfolio_holdings[X].name
                  /\ RowAt(L, x)[SettoreCol] # portfolio_holdings[X].sector
                  /\ RowAt(L, x)[AreaCol] # portfolio_holdings[X].region
                  /\ x # FirstOf({y \in P : KeyAt(L, y) = X})

\* The comparison charts and the overlap metric have been computed.
SectorChartDone ==
    pc \in {"region_chart", "overlap"} \/ (pc = "done" /\ overlap_pct.den > 0)
RegionChartDone ==
    pc = "overlap" \/ (pc = "done" /\ overlap_pct.den > 0)
OverlapDone == pc = "done" /\ overlap_pct.den > 0

\* The benchmark's retained rows whose cell of column col is key.
BenchmarkRowsOf(col, key) ==
    {p \in 1..Len(benchmark_df.rows) : benchmark_df.rows[p].row[col] = key}

RECURSIVE SumBenchmark(_)
\* The sum of the benchmark's retained weights over a set of positions.
SumBenchmark(S) ==
    IF S = {} THEN 0
    ELSE LET p == CHOOSE y \in S : TRUE
         IN  benchmark_df.rows[p].clean.v + SumBenchmark(S \ {p})

\* The chart holds the keys of both sides, each with the benchmark's sum and
\* the portfolio's aggregated weight, 0 where a side lacks the key.
ComparisonIsUnion(chart, col, portfolio) ==
    LET benchKeys == {benchmark_df.rows[p].row[col] :
                          p \in 1..Len(benchmark_df.rows)} \ {NaN}
    IN  /\ DOMAIN chart = benchKeys \cup DOMAIN portfolio
        /\ \A key \in DOMAIN chart :
              /\ chart[key].benchmark = Fin(SumBenchmark(BenchmarkRowsOf(col, key)))
              /\ key \notin benchKeys => chart[key].benchmark = Fin(0)
              /\ chart[key].portfolio =
                    IF key \in DOMAIN portfolio THEN portfolio[key] ELSE Fin(0)

\* C9: the sector comparison and the region comparison hold exactly the
\* union of the benchmark's and the portfolio's keys; each key has the sum of
\* the benchmark's retained weights with that key and the portfolio's
\* aggregated weight for it, and 0 on a side that lacks it.
C9_ComparisonCoversUnion ==
    /\ SectorChartDone =>
          ComparisonIsUnion(sector_chart, SettoreCol, portfolio_sectors)
    /\ RegionChartDone =>
          ComparisonIsUnion(region_chart, AreaCol, portfolio_regions)

\* Both charts are drawn; the sector chart has a key of the benchmark only,
\* a key of the portfolio only and a key of both.
C9_Witness ==
    /\ RegionChartDone
    /\ \E a, b, c \in DOMAIN sector_chart :
          /\ a \notin DOMAIN portfolio_sectors
          /\ sector_chart[a].benchmark.v > 0 /\ sector_chart[a].portfolio = Fin(0)
          /\ BenchmarkRowsOf(SettoreCol, b) = {}
          /\ sector_chart[b].benchmark = Fin(0) /\ sector_chart[b].portfolio.v > 0
          /\ sector_chart[c].benchmark.v > 0 /\ sector_chart[c].portfolio.v > 0
    /\ DOMAIN region_chart # {}

\* The portfolio identifiers that a retained benchmark row carries.
Common ==
    {X \in DOMAIN portfolio_holdings :
        \E p \in 1..Len(benchmark_df.rows) :
            TickerKey(0, benchmark_df, benchmark_df.rows[p]) = X}

\* C10: the overlap ratio is (portfolio identifiers that are benchmark
\* identifiers) / (portfolio identifiers) * 100; it lies in [0, 100], is 100
\* when every portfolio identifier is in the benchmark, and is 0, with no
\* division, for a portfolio without holdings.
C10_OverlapRatio ==
    /\ OverlapDone =>
          /\ overlap_pct.num * Cardinality(DOMAIN portfolio_holdings)
                = Cardinality(Common) * 100 * overlap_pct.den
          /\ 0 <= overlap_pct.num
          /\ overlap_pct.num <= 100 * overlap_pct.den
          /\ Common = DOMAIN portfolio_holdings =>
                overlap_pct.num = 100 * overlap_pct.den
    /\ benchmark_df.ok =>
          LET none == OverlapPct(benchmark_df, NoHoldings)
          IN  none.num = 0 /\ none.den # 0

\* The ratio was computed for a portfolio of which some identifiers, not
\* all, are in the benchmark.
C10_Witness ==
    /\ OverlapDone
    /\ 0 < overlap_pct.num
    /\ overlap_pct.num < 100 * overlap_pct.den
    /\ Cardinality(DOMAIN portfolio_holdings) > Cardinality(Common)

\* The frames loaded so far, each with the file it was loaded from.
LoadedFrames ==
    (IF benchmark_df.ok THEN {<<benchmark_df, benchmark_file>>} ELSE {})
    \cup (IF df.ok THEN {<<df, etf_files[IF pc = "rows" \/ pc = "sectors" \/ pc = "regions" \/ (pc = "crashed" /\ i <= Len(etf_files)) THEN i ELSE i - 1]>>} ELSE {})

\* The weight cell is missing, empty or not a number.
Unparseable(value) ==
    IsNa(value) \/ value = <<>> \/ PyFloat(ReplaceComma(Strip(value))) = ValueError

\* The frame holds exactly the rows of the file that are equities with a
\* normalized weight above zero, in the order of the file; a row whose weight
\* is missing, empty or unparseable normalizes to 0.0 and is not among them.
IsEquityFilter(frame, file) ==
    LET kept == {r \in 1..Len(file.rows) :
                    /\ file.rows[r][AssetCol] = Azionario
                    /\ FGtZero(clean_percentage(file.rows[r][PondCol]))}
    IN  /\ {frame.rows[p].idx : p \in 1..Len(frame.rows)} = kept
        /\ Len(frame.rows) = Cardinality(kept)
        /\ \A p, q \in 1..Len(frame.rows) :
              p < q => frame.rows[p].idx < frame.rows[q].idx
        /\ \A p \in 1..Len(frame.rows) :
              /\ frame.rows[p].row = file.rows[frame.rows[p].idx]
              /\ frame.rows[p].clean = clean_percentage(frame.rows[p].row[PondCol])
        /\ \A r \in 1..Len(file.rows) :
              Unparseable(file.rows[r][PondCol]) =>
                  /\ clean_percentage(file.rows[r][PondCol]) = Fin(0)
                  /\ r \notin kept

\* Every retained weight is a finite number above zero.
RetainedFinitePositive(frame) ==
    \A p \in 1..Len(frame.rows) :
        IsFinite(frame.rows[p].clean) /\ frame.rows[p].clean.v > 0

\* The part of C6 about which rows are retained.
C6_RetainedRowsAreTheFilter ==
    \A x \in LoadedFrames : IsEquityFilter(x[1], x[2])

\* C6: the output of load_and_clean_data is exactly the subsequence of the
\* equity rows with a normalized weight above zero; missing, empty and
\* unparseable weights normalize to 0.0 and are dropped, so every retained
\* weight is finite and strictly positive.
C6_RetainedWeightsFinitePositive ==
    \A x \in LoadedFrames :
        IsEquityFilter(x[1], x[2]) /\ RetainedFinitePositive(x[1])

\* The top chart has been computed.
TopChartDone ==
    pc \in {"sector_chart", "region_chart", "overlap"} \/ OverlapDone

\* The number of benchmark rows that come before row p in the ranking:
\* those of greater weight, and those of equal weight that stand earlier.
Before(p) ==
    {q \in 1..Len(benchmark_df.rows) :
        \/ benchmark_df.rows[q].clean.v > benchmark_df.rows[p].clean.v
        \/ /\ benchmark_df.rows[q].clean.v = benchmark_df.rows[p].clean.v
           /\ q < p}

\* C8: the top-holdings comparison has one row for each of the TopN benchmark
\* holdings of largest weight, in descending weight order, equal weights in
\* row order; its portfolio weight is the aggregated weight stored under the
\* same identifier, or 0 when the portfolio has no such identifier.
C8_TopHoldings ==
    TopChartDone =>
        /\ Len(top_chart) =
              IF Len(benchmark_df.rows) < TopN THEN Len(benchmark_df.rows) ELSE TopN
        /\ \A r \in 1..Len(top_chart) :
              \E p \in 1..Len(benchmark_df.rows) :
                  LET e == benchmark_df.rows[p]
                      X == TickerKey(0, benchmark_df, e)
                  IN  /\ Cardinality(Before(p)) = r - 1
                      /\ top_chart[r].name = e.row[NomeCol]
                      /\ top_chart[r].benchmark = e.clean
                      /\ top_chart[r].portfolio =
                            IF X \in DOMAIN portfolio_holdings
                            THEN portfolio_holdings[X].weight
                            ELSE Fin(0)

\* The benchmark has more than TopN holdings, a holding left out weighs as
\* much as one shown and stands after it, a lighter holding stands before a
\* heavier one, and the chart has a holding the portfolio has and one it
\* lacks.
C8_Witness ==
    /\ TopChartDone
    /\ Len(benchmark_df.rows) > TopN
    /\ Len(top_chart) = TopN
    /\ \E p, q \in 1..Len(benchmark_df.rows) :
          /\ Cardinality(Before(p)) < TopN
          /\ Cardinality(Before(q)) >= TopN
          /\ benchmark_df.rows[p].clean = benchmark_df.rows[q].clean
    /\ \E p, q \in 1..Len(benchmark_df.rows) :
          /\ p < q
          /\ benchmark_df.rows[p].clean.v < benchmark_df.rows[q].clean.v
    /\ \E r \in 1..Len(top_chart) : top_chart[r].portfolio.v > 0
    /\ \E r \in 1..Len(top_chart) : top_chart[r].portfolio = Fin(0)

=============================================================================
